---- MODULE Spec2Model ----
(***************************************************************************)
(* CasperCreds credential registry (contracts/src/creds.rs).               *)
(*                                                                         *)
(* The registry is one Odra module: eight storage slots and a set of       *)
(* entry points.  Every entry point runs to completion as one atomic       *)
(* call; env().revert aborts the call.  Each entry point is a pure         *)
(* operator from (storage, caller, block time, arguments) to a call        *)
(* outcome, and an action that commits the outcome.                        *)
(***************************************************************************)
EXTENDS Integers, Sequences, FiniteSets, TLC

\* ------------------------------------------------------------------ bounds
MaxCreds == 2        \* cap on cred_count in the general specification
MaxClockCreds == 1   \* cap on cred_count in the clock specification
MaxBatchLen == 2     \* longest holder list drawn in the general specification
MaxTime == 2         \* the block time runs over 0..MaxTime
MaxExpiry == 1       \* expires_at is drawn from 0..MaxExpiry
BatchSlack == 1      \* the batch specification allows cred_count up to BatchLimit + BatchSlack

\* -------------------------------------------------------- program constants
BatchLimit == 10             \* creds.rs:212  holders.len() > 10
InitialSchemaVersion == 1    \* creds.rs:103  schema_version.set(1)
STATUS_VALID == 0            \* creds.rs:277
STATUS_REVOKED == 1          \* creds.rs:271
STATUS_EXPIRED == 2          \* creds.rs:273
STATUS_ISSUER_INACTIVE == 3  \* creds.rs:275

\* ------------------------------------------------------------- input values
Address == {"acct0", "acct1"}
Deployer == "acct0"
Names == {"MIT", "Harvard"}
CredTypes == {"degree"}
Titles == {"BSc"}
Hashes == {"Qm"}
Reasons == {"fraud"}
Time == 0..MaxTime
Expiries == 0..MaxExpiry

VARIABLES
    owner,           \* Var<Address>
    issuers,         \* Mapping<Address, (String, bool)>
    credentials,     \* Mapping<U256, Credential>
    cred_count,      \* Var<U256>
    holder_creds,    \* Mapping<Address, Vec<U256>>
    issuer_creds,    \* Mapping<Address, Vec<U256>>
    revocations,     \* Mapping<U256, RevocationRecord>
    schema_version,  \* Var<u8>
    now,             \* env().get_block_time()
    last             \* the outcome of the most recent call

storage == <<owner, issuers, credentials, cred_count, holder_creds,
             issuer_creds, revocations, schema_version>>
vars == <<owner, issuers, credentials, cred_count, holder_creds,
          issuer_creds, revocations, schema_version, now, last>>

\* The module's storage as one value.
Self ==
    [owner |-> owner, issuers |-> issuers, credentials |-> credentials,
     cred_count |-> cred_count, holder_creds |-> holder_creds,
     issuer_creds |-> issuer_creds, revocations |-> revocations,
     schema_version |-> schema_version]

\* ------------------------------------------------------- Mapping and outcome
\* Mapping::set
MapSet(m, k, v) == [x \in (DOMAIN m) \cup {k} |-> IF x = k THEN v ELSE m[x]]

\* Mapping::get(..).unwrap_or_default() on a Vec-valued mapping
GetOrDefault(m, k) == IF k \in DOMAIN m THEN m[k] ELSE <<>>

EmptyMap == <<>>

\* Option<T>
None == [some |-> FALSE]

Some(v) == [some |-> TRUE, value |-> v]

\* A call that returns normally.
Ok(self, ret, events) ==
    [self |-> self, err |-> "Ok", ret |-> ret, events |-> events]

\* env().revert(e): the call aborts; storage is as before the call.
Revert(self, e) ==
    [self |-> self, err |-> e, ret |-> "none", events |-> <<>>]

\* Var<Address> before any set.
Unset == "unset"

\* Storage of an instance on which init has not run: nothing is set.
BlankStorage ==
    [owner |-> Unset, issuers |-> EmptyMap, credentials |-> EmptyMap, cred_count |-> 0,
     holder_creds |-> EmptyMap, issuer_creds |-> EmptyMap, revocations |-> EmptyMap,
     schema_version |-> 0]

\* Mutant of init: the schema version is left unset.
init_no_version(self, caller) ==
    Ok([self EXCEPT !.owner = caller, !.cred_count = 0], "unit", <<>>)

\* init as written: three unconditional writes.
init(self, caller) ==
    Ok([self EXCEPT !.owner = caller, !.cred_count = 0,
                    !.schema_version = InitialSchemaVersion],
       "unit", <<>>)

\* init as the host admits it: the constructor runs on an instance once, and an
\* invocation on an initialized instance is refused.
init_once(self, caller) ==
    IF self.owner # Unset THEN Revert(self, "AlreadyInitialized")
    ELSE init(self, caller)

\* ------------------------------------------------------------ admin functions
\* only_owner: TRUE when the caller passes the check, FALSE when it reverts.
only_owner(self, caller) == caller = self.owner

\* Mutant of register_issuer: the IssuerExists check comes before only_owner.
register_issuer_exists_first(self, caller, t, issuer, name) ==
    IF issuer \in DOMAIN self.issuers THEN Revert(self, "IssuerExists")
    ELSE IF ~only_owner(self, caller) THEN Revert(self, "NotOwner")
    ELSE Ok([self EXCEPT !.issuers = MapSet(@, issuer, [name |-> name, active |-> TRUE])],
            "unit",
            <<[event |-> "IssuerRegistered", issuer |-> issuer, name |-> name,
               timestamp |-> t]>>)

\* Mutant of register_issuer: the IssuerExists check is missing, so registering
\* again overwrites the record.
register_issuer_overwrite(self, caller, t, issuer, name) ==
    IF ~only_owner(self, caller) THEN Revert(self, "NotOwner")
    ELSE Ok([self EXCEPT !.issuers = MapSet(@, issuer, [name |-> name, active |-> TRUE])],
            "unit",
            <<[event |-> "IssuerRegistered", issuer |-> issuer, name |-> name,
               timestamp |-> t]>>)

register_issuer(self, caller, t, issuer, name) ==
    IF ~only_owner(self, caller) THEN Revert(self, "NotOwner")
    ELSE IF issuer \in DOMAIN self.issuers THEN Revert(self, "IssuerExists")
    ELSE Ok([self EXCEPT !.issuers = MapSet(@, issuer, [name |-> name, active |-> TRUE])],
            "unit",
            <<[event |-> "IssuerRegistered", issuer |-> issuer, name |-> name,
               timestamp |-> t]>>)

\* Mutant of deactivate_issuer: an unknown identity gets an inactive record.
deactivate_issuer_creates(self, caller, issuer) ==
    IF ~only_owner(self, caller) THEN Revert(self, "NotOwner")
    ELSE Ok([self EXCEPT !.issuers =
                MapSet(@, issuer, [name |-> IF issuer \in DOMAIN @ THEN @[issuer].name
                                            ELSE "Unknown",
                                   active |-> FALSE])],
            "unit", <<>>)

deactivate_issuer(self, caller, issuer) ==
    IF ~only_owner(self, caller) THEN Revert(self, "NotOwner")
    ELSE IF issuer \in DOMAIN self.issuers
         THEN Ok([self EXCEPT !.issuers =
                     MapSet(@, issuer, [name |-> @[issuer].name, active |-> FALSE])],
                 "unit", <<>>)
         ELSE Ok(self, "unit", <<>>)

reactivate_issuer(self, caller, issuer) ==
    IF ~only_owner(self, caller) THEN Revert(self, "NotOwner")
    ELSE IF issuer \in DOMAIN self.issuers
         THEN Ok([self EXCEPT !.issuers =
                     MapSet(@, issuer, [name |-> @[issuer].name, active |-> TRUE])],
                 "unit", <<>>)
         ELSE Ok(self, "unit", <<>>)

\* Mutant of transfer_ownership: the only_owner check is missing.
transfer_ownership_anyone(self, caller, new_owner) ==
    Ok([self EXCEPT !.owner = new_owner], "unit", <<>>)

transfer_ownership(self, caller, new_owner) ==
    IF ~only_owner(self, caller) THEN Revert(self, "NotOwner")
    ELSE Ok([self EXCEPT !.owner = new_owner], "unit", <<>>)

\* ----------------------------------------------------------- issuer functions
\* Mutant of institution_of: a deactivated issuer counts as unregistered.
institution_of_active_only(self, caller) ==
    IF caller \in DOMAIN self.issuers /\ self.issuers[caller].active
    THEN self.issuers[caller].name
    ELSE "Self-Issued"

\* The institution snapshot: the caller's registered name, else "Self-Issued".
institution_of(self, caller) ==
    IF caller \in DOMAIN self.issuers THEN self.issuers[caller].name
    ELSE "Self-Issued"

\* The ID allocated to the next credential.
next_id(self) == self.cred_count

\* Mutant of bump_count: the counter is written back without the increment.
bump_count_stuck(id) == id

\* The counter after storing credential id.
bump_count(id) == id + 1

\* Mutant of index_by_holder: the list is replaced instead of extended.
index_by_holder_overwrite(self, holder, id) ==
    MapSet(self.holder_creds, holder, <<id>>)

\* The holder index after appending id to holder's list.
index_by_holder(self, holder, id) ==
    MapSet(self.holder_creds, holder, Append(GetOrDefault(self.holder_creds, holder), id))

\* The issuer index after appending id to caller's list.
index_by_issuer(self, caller, id) ==
    MapSet(self.issuer_creds, caller, Append(GetOrDefault(self.issuer_creds, caller), id))

\* a: [cred_type, title, expires_at, metadata_hash], the arguments besides holder.
issue(self, caller, t, holder, a) ==
    LET institution == institution_of(self, caller)
        id == next_id(self)
        cred == [issuer |-> caller, holder |-> holder, cred_type |-> a.cred_type,
                 title |-> a.title, institution |-> institution, issued_at |-> t,
                 expires_at |-> a.expires_at, revoked |-> FALSE,
                 metadata_hash |-> a.metadata_hash,
                 schema_version |-> self.schema_version]
    IN Ok([self EXCEPT !.credentials = MapSet(@, id, cred),
                       !.cred_count = bump_count(id),
                       !.holder_creds = index_by_holder(self, holder, id),
                       !.issuer_creds = index_by_issuer(self, caller, id)],
          id,
          <<[event |-> "CredentialIssued", id |-> id, issuer |-> caller,
             holder |-> holder, cred_type |-> a.cred_type, timestamp |-> t]>>)

\* Mutant of batch_limit_exceeded: a batch of exactly the limit is refused.
batch_limit_off_by_one(holders) == Len(holders) >= BatchLimit

\* The guard of batch_issue: TRUE when the holder list is too long.
batch_limit_exceeded(holders) == Len(holders) > BatchLimit

\* Mutant of batch_loop: every issue of the batch starts from the storage the
\* batch began with, so that only the last holder's writes remain.
RECURSIVE batch_loop_stale(_, _, _, _, _, _, _)
batch_loop_stale(self, caller, t, holders, a, ids, events) ==
    IF holders = <<>> THEN Ok(self, ids, events)
    ELSE LET r == issue(self, caller, t, Head(holders), a)
         IN IF Tail(holders) = <<>>
            THEN Ok(r.self, Append(ids, r.ret), events \o r.events)
            ELSE batch_loop_stale(self, caller, t, Tail(holders), a,
                                  Append(ids, r.ret), events \o r.events)

\* for holder in holders { ids.push(self.issue(holder, ..)) }
RECURSIVE batch_loop(_, _, _, _, _, _, _)
batch_loop(self, caller, t, holders, a, ids, events) ==
    IF holders = <<>> THEN Ok(self, ids, events)
    ELSE LET r == issue(self, caller, t, Head(holders), a)
         IN batch_loop(r.self, caller, t, Tail(holders), a,
                       Append(ids, r.ret), events \o r.events)

\* Mutant of batch_issue: the limit is checked after the loop has issued.
batch_issue_check_last(self, caller, t, holders, a) ==
    LET r == batch_loop(self, caller, t, holders, a, <<>>, <<>>)
    IN IF batch_limit_exceeded(holders)
       THEN [r EXCEPT !.err = "BatchLimitExceeded", !.ret = "none"]
       ELSE r

batch_issue(self, caller, t, holders, a) ==
    IF batch_limit_exceeded(holders) THEN Revert(self, "BatchLimitExceeded")
    ELSE batch_loop(self, caller, t, holders, a, <<>>, <<>>)

\* The revocation record written by a successful revoke.
revocation_record(id, caller, t, reason) ==
    [credential_id |-> id, revoked_by |-> caller, revoked_at |-> t, reason |-> reason]

\* Mutant of revoke_check: the registry owner may revoke as well.
revoke_check_owner_too(self, caller, id) ==
    IF id \notin DOMAIN self.credentials THEN "NotFound"
    ELSE IF self.credentials[id].issuer # caller /\ self.owner # caller THEN "NotCredIssuer"
    ELSE IF self.credentials[id].revoked THEN "AlreadyRevoked"
    ELSE "Ok"

\* Mutant of revoke_check: the AlreadyRevoked check is missing.
revoke_check_no_already(self, caller, id) ==
    IF id \notin DOMAIN self.credentials THEN "NotFound"
    ELSE IF self.credentials[id].issuer # caller THEN "NotCredIssuer"
    ELSE "Ok"

\* The three checks of revoke, in order: "Ok" when all pass.
revoke_check(self, caller, id) ==
    IF id \notin DOMAIN self.credentials THEN "NotFound"
    ELSE IF self.credentials[id].issuer # caller THEN "NotCredIssuer"
    ELSE IF self.credentials[id].revoked THEN "AlreadyRevoked"
    ELSE "Ok"

revoke(self, caller, t, id, reason) ==
    IF revoke_check(self, caller, id) # "Ok"
    THEN Revert(self, revoke_check(self, caller, id))
    ELSE Ok([self EXCEPT !.credentials = MapSet(@, id, [@[id] EXCEPT !.revoked = TRUE]),
                         !.revocations = MapSet(@, id, revocation_record(id, caller, t, reason))],
            "unit",
            <<[event |-> "CredentialRevoked", id |-> id, issuer |-> caller,
               reason |-> reason, timestamp |-> t]>>)

\* ------------------------------------------------------ public query functions
\* issuers.get(&cred.issuer).unwrap_or(("Unknown", false))
issuer_info(self, issuer) ==
    IF issuer \in DOMAIN self.issuers
    THEN [name |-> self.issuers[issuer].name, active |-> self.issuers[issuer].active]
    ELSE [name |-> "Unknown", active |-> FALSE]

\* Mutant of verify_status: the expiry check comes before the revoked check.
verify_status_expiry_first(cred, issuer_active, t) ==
    IF cred.expires_at > 0 /\ t > cred.expires_at THEN STATUS_EXPIRED
    ELSE IF cred.revoked THEN STATUS_REVOKED
    ELSE IF ~issuer_active THEN STATUS_ISSUER_INACTIVE
    ELSE STATUS_VALID

\* Mutant of verify_status: a credential expires at expires_at, not after it.
verify_status_expires_at(cred, issuer_active, t) ==
    IF cred.revoked THEN STATUS_REVOKED
    ELSE IF cred.expires_at > 0 /\ t >= cred.expires_at THEN STATUS_EXPIRED
    ELSE IF ~issuer_active THEN STATUS_ISSUER_INACTIVE
    ELSE STATUS_VALID

verify_status(cred, issuer_active, t) ==
    IF cred.revoked THEN STATUS_REVOKED
    ELSE IF cred.expires_at > 0 /\ t > cred.expires_at THEN STATUS_EXPIRED
    ELSE IF ~issuer_active THEN STATUS_ISSUER_INACTIVE
    ELSE STATUS_VALID

verify(self, t, id) ==
    IF id \notin DOMAIN self.credentials THEN Revert(self, "NotFound")
    ELSE LET cred == self.credentials[id]
             info == issuer_info(self, cred.issuer)
             status == verify_status(cred, info.active, t)
         IN Ok(self,
               [is_valid |-> status = 0, status |-> status, credential |-> cred,
                issuer_name |-> info.name, issuer_active |-> info.active],
               <<>>)

\* Mutant of simple_validity: a credential expires at expires_at, not after it.
simple_validity_expires_at(cred, t) ==
    LET expired == cred.expires_at > 0 /\ t >= cred.expires_at
    IN ~cred.revoked /\ ~expired

\* The body of is_valid for a stored credential.
simple_validity(cred, t) ==
    LET expired == cred.expires_at > 0 /\ t > cred.expires_at
    IN ~cred.revoked /\ ~expired

\* Mutant of is_valid: the issuer must be registered and active, as in verify.
is_valid_with_issuer(self, t, id) ==
    IF id \in DOMAIN self.credentials
    THEN Ok(self, simple_validity(self.credentials[id], t)
                    /\ issuer_info(self, self.credentials[id].issuer).active, <<>>)
    ELSE Ok(self, FALSE, <<>>)

is_valid(self, t, id) ==
    IF id \in DOMAIN self.credentials
    THEN Ok(self, simple_validity(self.credentials[id], t), <<>>)
    ELSE Ok(self, FALSE, <<>>)

get_credential(self, id) ==
    IF id \in DOMAIN self.credentials THEN Some(self.credentials[id]) ELSE None

get_revocation(self, id) ==
    IF id \in DOMAIN self.revocations THEN Some(self.revocations[id]) ELSE None

get_holder_creds(self, holder) == GetOrDefault(self.holder_creds, holder)

get_issuer_creds(self, issuer) == GetOrDefault(self.issuer_creds, issuer)

get_issuer(self, addr) ==
    IF addr \in DOMAIN self.issuers THEN Some(self.issuers[addr]) ELSE None

total(self) == self.cred_count

\* -------------------------------------------------------------- state machine
\* The state after deployment: init() has run with the deployer as caller.
Init ==
    /\ owner = Deployer
    /\ cred_count = 0
    /\ schema_version = InitialSchemaVersion
    /\ issuers = EmptyMap
    /\ credentials = EmptyMap
    /\ holder_creds = EmptyMap
    /\ issuer_creds = EmptyMap
    /\ revocations = EmptyMap
    /\ now = 0
    /\ last = [op |-> "init", caller |-> Deployer, err |-> "Ok", ret |-> "unit",
               events |-> <<>>]

\* Storage after a call with outcome r.
Commit(r) ==
    /\ owner' = r.self.owner
    /\ issuers' = r.self.issuers
    /\ credentials' = r.self.credentials
    /\ cred_count' = r.self.cred_count
    /\ holder_creds' = r.self.holder_creds
    /\ issuer_creds' = r.self.issuer_creds
    /\ revocations' = r.self.revocations
    /\ schema_version' = r.self.schema_version

\* One call of entry point op by caller, with outcome r, at the current block time.
Call(op, caller, r) ==
    /\ Commit(r)
    /\ last' = [op |-> op, caller |-> caller, err |-> r.err, ret |-> r.ret,
                events |-> r.events]
    /\ UNCHANGED now

\* expires_at = 0: the credential never expires.
NoExpiry == {0}

IssueArgs(expiries) ==
    [cred_type : CredTypes, title : Titles, expires_at : expiries, metadata_hash : Hashes]

RegisterIssuer ==
    \E caller \in Address, issuer \in Address, name \in Names :
        Call("register_issuer", caller, register_issuer(Self, caller, now, issuer, name))

DeactivateIssuer ==
    \E caller \in Address, issuer \in Address :
        Call("deactivate_issuer", caller, deactivate_issuer(Self, caller, issuer))

ReactivateIssuer ==
    \E caller \in Address, issuer \in Address :
        Call("reactivate_issuer", caller, reactivate_issuer(Self, caller, issuer))

TransferOwnership ==
    \E caller \in Address, new_owner \in Address :
        Call("transfer_ownership", caller, transfer_ownership(Self, caller, new_owner))

IssueUpTo(cap, expiries) ==
    \E caller \in Address, holder \in Address, a \in IssueArgs(expiries) :
        /\ cred_count < cap
        /\ Call("issue", caller, issue(Self, caller, now, holder, a))

\* Holder lists of the general specification: every list of at most MaxBatchLen
\* holders, and one list longer than the batch limit.
ShortLists ==
    UNION {[1..n -> Address] : n \in 0..MaxBatchLen}
        \cup {[i \in 1..(BatchLimit + 1) |-> Deployer]}

\* Holder lists around the batch limit, holders alternating between h1 and h2
\* (h1 = h2 gives one holder repeated throughout).
LongLists ==
    {[i \in 1..n |-> IF i % 2 = 1 THEN h1 ELSE h2] :
        n \in {0} \cup ((BatchLimit - 1)..(BatchLimit + 1)), h1 \in Address, h2 \in Address}

BatchIssueFrom(lists, cap, expiries) ==
    \E caller \in Address, holders \in lists, a \in IssueArgs(expiries) :
        /\ batch_limit_exceeded(holders) \/ cred_count + Len(holders) <= cap
        /\ Call("batch_issue", caller, batch_issue(Self, caller, now, holders, a))

\* The IDs calls are made with: every ID that can be stored, and one that cannot.
Ids == 0..MaxCreds

Revoke ==
    \E caller \in Address, id \in Ids, reason \in Reasons :
        Call("revoke", caller, revoke(Self, caller, now, id, reason))

\* verify and is_valid do not read the caller.
Verify ==
    \E id \in Ids : Call("verify", "any", verify(Self, now, id))

IsValid ==
    \E id \in Ids : Call("is_valid", "any", is_valid(Self, now, id))

\* The block time advances between calls.
Tick ==
    /\ now < MaxTime
    /\ now' = now + 1
    /\ last' = [op |-> "tick", caller |-> "any", err |-> "Ok", ret |-> "unit",
                events |-> <<>>]
    /\ UNCHANGED storage

Issue == IssueUpTo(MaxCreds, NoExpiry)

BatchIssue == BatchIssueFrom(ShortLists, MaxCreds, NoExpiry)

\* The general specification: every entry point, all calls at one block time,
\* credentials issued without expiry.
Next ==
    \/ RegisterIssuer
    \/ DeactivateIssuer
    \/ ReactivateIssuer
    \/ TransferOwnership
    \/ Issue
    \/ BatchIssue
    \/ Revoke
    \/ Verify
    \/ IsValid

Spec == Init /\ [][Next]_vars

IssueExpiring == IssueUpTo(MaxClockCreds, Expiries)

\* The clock specification: the block time advances between calls.
NextClock ==
    \/ RegisterIssuer
    \/ DeactivateIssuer
    \/ ReactivateIssuer
    \/ TransferOwnership
    \/ IssueExpiring
    \/ Revoke
    \/ Verify
    \/ IsValid
    \/ Tick

SpecClock == Init /\ [][NextClock]_vars

\* An instance before deployment.
Blank ==
    /\ owner = BlankStorage.owner
    /\ cred_count = BlankStorage.cred_count
    /\ schema_version = BlankStorage.schema_version
    /\ issuers = BlankStorage.issuers
    /\ credentials = BlankStorage.credentials
    /\ holder_creds = BlankStorage.holder_creds
    /\ issuer_creds = BlankStorage.issuer_creds
    /\ revocations = BlankStorage.revocations
    /\ now = 0
    /\ last = [op |-> "none", caller |-> "any", err |-> "Ok", ret |-> "unit",
               events |-> <<>>]

InitCall ==
    \E caller \in Address : Call("init", caller, init_once(Self, caller))

\* The other entry points exist once the instance is deployed.
Deployed == owner # Unset

\* The deployment specification: init is invoked on a blank instance and again
\* later, among transfers of ownership and issues.
NextInit ==
    \/ InitCall
    \/ Deployed /\ TransferOwnership
    \/ Deployed /\ Issue

SpecInit == Blank /\ [][NextInit]_vars

BatchIssueLong == BatchIssueFrom(LongLists, BatchLimit + BatchSlack, Expiries)

\* The batch specification: batches of about BatchLimit holders.
NextBatch ==
    \/ RegisterIssuer
    \/ DeactivateIssuer
    \/ BatchIssueLong
    \/ Tick

SpecBatch == Init /\ [][NextBatch]_vars

\* ---------------------------------------------------------------- properties
\* The IDs a state mentions anywhere, and the IDs calls are made with.
RECURSIVE SeqRange(_)
SeqRange(q) == IF q = <<>> THEN {} ELSE {Head(q)} \cup SeqRange(Tail(q))

KnownIds ==
    Ids \cup DOMAIN credentials \cup DOMAIN revocations
        \cup UNION {SeqRange(holder_creds[h]) : h \in DOMAIN holder_creds}
        \cup UNION {SeqRange(issuer_creds[i]) : i \in DOMAIN issuer_creds}

KnownAddresses == Address \cup DOMAIN holder_creds \cup DOMAIN issuer_creds \cup DOMAIN issuers

StrictlyIncreasing(q) == \A i \in 1..Len(q), j \in 1..Len(q) : i < j => q[i] < q[j]

\* C1: credential IDs are dense from zero: the stored IDs are exactly
\* 0..total()-1; a successful issue returns the total() of before the call and
\* raises total() by 1; a successful batch_issue raises it by len(holders); no
\* other operation changes total().
C1_DenseIds ==
    /\ DOMAIN credentials = 0..(total(Self) - 1)
    /\ \A caller \in Address :
        /\ \A holder \in Address, a \in IssueArgs(NoExpiry) :
              LET r == issue(Self, caller, now, holder, a)
              IN r.err = "Ok" => r.ret = total(Self) /\ total(r.self) = total(Self) + 1
        /\ \A holders \in ShortLists, a \in IssueArgs(NoExpiry) :
              LET r == batch_issue(Self, caller, now, holders, a)
              IN r.err = "Ok" => total(r.self) = total(Self) + Len(holders)
        /\ \A issuer \in Address, name \in Names :
              total(register_issuer(Self, caller, now, issuer, name).self) = total(Self)
        /\ \A issuer \in Address :
              /\ total(deactivate_issuer(Self, caller, issuer).self) = total(Self)
              /\ total(reactivate_issuer(Self, caller, issuer).self) = total(Self)
              /\ total(transfer_ownership(Self, caller, issuer).self) = total(Self)
        /\ \A id \in Ids, reason \in Reasons :
              total(revoke(Self, caller, now, id, reason).self) = total(Self)
    /\ \A id \in Ids :
        /\ total(verify(Self, now, id).self) = total(Self)
        /\ total(is_valid(Self, now, id).self) = total(Self)

\* C1 witness: a second issue returned ID 1 and left total() at 2.
C1_Witness ==
    /\ last.op = "issue" /\ last.err = "Ok"
    /\ last.ret = 1
    /\ cred_count = 2
    /\ DOMAIN credentials = {0, 1}

\* C2: the holder index lists an ID exactly when a credential with that ID is
\* stored with that holder, the issuer index likewise with the issuer; each ID
\* appears once and each list is in strictly increasing order.
C2_IndexesMatchStore ==
    \A x \in KnownAddresses :
        /\ \A id \in KnownIds :
              /\ id \in SeqRange(get_holder_creds(Self, x))
                    <=> (id \in DOMAIN credentials /\ credentials[id].holder = x)
              /\ id \in SeqRange(get_issuer_creds(Self, x))
                    <=> (id \in DOMAIN credentials /\ credentials[id].issuer = x)
        /\ StrictlyIncreasing(get_holder_creds(Self, x))
        /\ StrictlyIncreasing(get_issuer_creds(Self, x))

\* C2 witness: one batch_issue named the same holder twice, and that holder's
\* list holds both IDs in order.
C2_Witness ==
    /\ last.op = "batch_issue" /\ last.err = "Ok"
    /\ last.ret = <<0, 1>>
    /\ \E h \in Address : get_holder_creds(Self, h) = <<0, 1>>
    /\ \E i \in Address : get_issuer_creds(Self, i) = <<0, 1>>

\* C3: get_revocation(id) returns a record exactly when a credential with that
\* ID is stored with its revoked flag set; the record's revoked_by is the
\* credential's issuer; a record, once created, is never changed or removed.
C3_RevocationRecords ==
    /\ [](\A id \in KnownIds :
            /\ get_revocation(Self, id).some
                  <=> (id \in DOMAIN credentials /\ credentials[id].revoked)
            /\ get_revocation(Self, id).some
                  => get_revocation(Self, id).value.revoked_by = credentials[id].issuer)
    /\ [][\A id \in DOMAIN revocations :
            get_revocation(Self, id)' = get_revocation(Self, id)]_vars

\* C3 witness: a revoke by the issuer of an already revoked credential, made
\* after the block time of the first revocation, left the record as it was.
C3_Witness ==
    /\ last.op = "revoke" /\ last.err = "AlreadyRevoked"
    /\ \E id \in DOMAIN revocations :
        /\ revocations[id].revoked_at < now
        /\ revocations[id].revoked_by = last.caller

\* The status the validity rule of the specification gives a stored credential:
\* ISSUER_INACTIVE only when an issuer record exists and is not active.
RuleStatus(cred, t) ==
    IF cred.revoked THEN STATUS_REVOKED
    ELSE IF cred.expires_at # 0 /\ t > cred.expires_at THEN STATUS_EXPIRED
    ELSE IF cred.issuer \in DOMAIN issuers /\ ~issuers[cred.issuer].active
         THEN STATUS_ISSUER_INACTIVE
    ELSE STATUS_VALID

\* C4: for every stored credential verify(id) returns the status of the
\* validity rule (REVOKED, else EXPIRED, else ISSUER_INACTIVE when an issuer
\* record exists and is inactive, else VALID), with is_valid = (status = VALID);
\* a credential of a registered active issuer that is VALID carries the
\* registered name.
C4_VerifyFollowsRule ==
    \A id \in DOMAIN credentials :
        LET r == verify(Self, now, id)
        IN /\ r.err = "Ok"
           /\ r.ret.status = RuleStatus(credentials[id], now)
           /\ r.ret.is_valid = (r.ret.status = STATUS_VALID)
           /\ (r.ret.status = STATUS_VALID /\ credentials[id].issuer \in DOMAIN issuers)
                 => r.ret.issuer_name = issuers[credentials[id].issuer].name

\* C5: the right to revoke a stored credential depends only on caller =
\* credential.issuer: any other caller, the registry owner included, gets
\* NotCredIssuer and nothing changes; the issuer revokes its not yet revoked
\* credential whether it is registered, deactivated or was never registered.
C5_OnlyIssuerRevokes ==
    \A id \in DOMAIN credentials, caller \in Address, reason \in Reasons :
        LET r == revoke(Self, caller, now, id, reason)
        IN /\ caller # credentials[id].issuer
                 => r.err = "NotCredIssuer" /\ r.self = Self /\ r.events = <<>>
           /\ (caller = credentials[id].issuer /\ ~credentials[id].revoked)
                 => /\ r.err = "Ok"
                    /\ r.self.credentials[id].revoked
                    /\ r.self.revocations[id].revoked_by = caller

\* C5 witness: the registry owner's revoke of a credential of another issuer
\* has just failed with NotCredIssuer, the issuer being deactivated.
C5_Witness ==
    /\ last.op = "revoke" /\ last.err = "NotCredIssuer"
    /\ last.caller = owner
    /\ \E id \in DOMAIN credentials :
        /\ credentials[id].issuer # owner
        /\ ~credentials[id].revoked
        /\ credentials[id].issuer \in DOMAIN issuers
        /\ ~issuers[credentials[id].issuer].active

\* C6 as stated: every revoke of an already revoked credential, whatever the
\* caller, fails with AlreadyRevoked and changes nothing.
C6_AlwaysAlreadyRevoked ==
    \A id \in DOMAIN credentials, caller \in Address, reason \in Reasons :
        credentials[id].revoked
            => LET r == revoke(Self, caller, now, id, reason)
               IN r.err = "AlreadyRevoked" /\ r.self = Self

\* C6 amended: every revoke of an already revoked credential fails and changes
\* nothing: with AlreadyRevoked when the caller is the credential's issuer, with
\* NotCredIssuer when it is anyone else.
C6_RevokedStaysRevoked ==
    \A id \in DOMAIN credentials, caller \in Address, reason \in Reasons :
        credentials[id].revoked
            => LET r == revoke(Self, caller, now, id, reason)
               IN /\ r.err = IF caller = credentials[id].issuer
                             THEN "AlreadyRevoked" ELSE "NotCredIssuer"
                  /\ r.self = Self
                  /\ r.events = <<>>

\* C6 witness: the issuer's second revoke has just failed with AlreadyRevoked.
C6_Witness ==
    /\ last.op = "revoke" /\ last.err = "AlreadyRevoked"
    /\ \E id \in DOMAIN credentials :
        /\ credentials[id].revoked
        /\ credentials[id].issuer = last.caller
        /\ id \in DOMAIN revocations

\* The status verify reports for a stored credential at block time t.
StatusAt(id, t) == verify(Self, t, id).ret.status

C8_ExpiryByClockAlone ==
    \A id \in DOMAIN credentials :
        LET E == credentials[id].expires_at
        IN /\ (~credentials[id].revoked /\ E > 0
                 /\ \E t0 \in Time : t0 <= E /\ StatusAt(id, t0) = STATUS_VALID)
                 => \A t \in Time :
                       /\ t <= E => /\ StatusAt(id, t) = STATUS_VALID
                                    /\ verify(Self, t, id).ret.is_valid
                       /\ t > E => /\ StatusAt(id, t) = STATUS_EXPIRED
                                   /\ ~verify(Self, t, id).ret.is_valid
                                   /\ is_valid(Self, t, id).ret = FALSE
           /\ E = 0 => \A t \in Time : StatusAt(id, t) # STATUS_EXPIRED

\* C8 witness: verify has just reported EXPIRED for a credential of a
\* registered active issuer, not revoked, the block time being past expires_at.
C8_Witness ==
    /\ last.op = "verify" /\ last.err = "Ok"
    /\ last.ret.status = STATUS_EXPIRED
    /\ ~last.ret.credential.revoked
    /\ last.ret.issuer_active
    /\ last.ret.credential.issued_at <= last.ret.credential.expires_at
    /\ now > last.ret.credential.expires_at

\* C9: batch_issue with more than 10 holders fails with BatchLimitExceeded and
\* changes nothing (total(), the credentials and both indexes are as before); a
\* batch of 10 holders or fewer does not fail with BatchLimitExceeded.
C9_BatchLimit ==
    \A caller \in Address, holders \in LongLists, a \in IssueArgs(NoExpiry) :
        LET r == batch_issue(Self, caller, now, holders, a)
        IN /\ Len(holders) > 10
                 => r.err = "BatchLimitExceeded" /\ r.self = Self /\ r.events = <<>>
           /\ Len(holders) <= 10
                 => r.err = "Ok" /\ total(r.self) = total(Self) + Len(holders)

\* C9 witness: a batch of 10 holders has been stored, and a batch_issue has
\* just failed with BatchLimitExceeded, total() still being 10.
C9_Witness ==
    /\ last.op = "batch_issue" /\ last.err = "BatchLimitExceeded"
    /\ total(Self) = 10
    /\ DOMAIN credentials = 0..9

\* A credential with its revoked flag left out of the comparison.
Unrevoked(cred) == [cred EXCEPT !.revoked = FALSE]

\* C10: a credential's institution is, from the call that issues it, the
\* caller's registered name if the caller has an issuer record then, and
\* "Self-Issued" otherwise; no field of a stored credential other than revoked
\* changes afterwards.
C10_InstitutionSnapshot ==
    /\ [][\A id \in DOMAIN credentials :
            /\ id \in DOMAIN credentials'
            /\ Unrevoked(credentials'[id]) = Unrevoked(credentials[id])]_vars
    /\ [][\A id \in (DOMAIN credentials') \ DOMAIN credentials :
            /\ last'.op \in {"issue", "batch_issue"}
            /\ credentials'[id].issuer = last'.caller
            /\ credentials'[id].institution =
                  IF get_issuer(Self, last'.caller).some
                  THEN get_issuer(Self, last'.caller).value.name
                  ELSE "Self-Issued"]_vars

\* C10 witness: a credential issued by an unregistered caller still reads
\* "Self-Issued" after the owner has registered that caller under a name.
C10_Witness ==
    /\ last.op = "register_issuer" /\ last.err = "Ok"
    /\ \E id \in DOMAIN credentials :
        /\ credentials[id].institution = "Self-Issued"
        /\ get_issuer(Self, credentials[id].issuer).some
        /\ get_issuer(Self, credentials[id].issuer).value.name = "Harvard"

\* C11: is_valid(id) never fails: it returns false when no credential with
\* that ID is stored, and otherwise exactly (not revoked) and not (expires_at
\* # 0 and now > expires_at), whether or not the issuer is registered or active.
C11_IsValidTotal ==
    \A id \in KnownIds :
        LET r == is_valid(Self, now, id)
        IN /\ r.err = "Ok"
           /\ r.self = Self
           /\ id \notin DOMAIN credentials => r.ret = FALSE
           /\ id \in DOMAIN credentials
                 => r.ret = (/\ ~credentials[id].revoked
                             /\ ~(credentials[id].expires_at # 0
                                    /\ now > credentials[id].expires_at))

\* C11 witness: is_valid has just returned true for a credential whose issuer
\* is registered and deactivated, on the last block time before its expiry
\* passes; an ID that is not stored is among the IDs asked for.
C11_Witness ==
    /\ last.op = "is_valid" /\ last.err = "Ok"
    /\ last.ret = TRUE
    /\ \E id \in Ids : id \notin DOMAIN credentials
    /\ DOMAIN credentials # {}
    /\ \A id \in DOMAIN credentials :
        /\ credentials[id].expires_at = now
        /\ now > 0
        /\ credentials[id].issuer \in DOMAIN issuers
        /\ ~issuers[credentials[id].issuer].active

\* A call outcome that is error e with nothing written and nothing emitted.
FailsWith(r, e) == r.err = e /\ r.self = Self /\ r.events = <<>>

\* C12: register_issuer, deactivate_issuer, reactivate_issuer and
\* transfer_ownership called by anyone but the current owner fail with NotOwner
\* and change nothing; NotOwner comes before every other check, so a non-owner
\* registering an existing issuer gets NotOwner, not IssuerExists.
C12_NotOwner ==
    \A caller \in Address, x \in Address :
        caller # owner
            => /\ \A name \in Names :
                     FailsWith(register_issuer(Self, caller, now, x, name), "NotOwner")
               /\ FailsWith(deactivate_issuer(Self, caller, x), "NotOwner")
               /\ FailsWith(reactivate_issuer(Self, caller, x), "NotOwner")
               /\ FailsWith(transfer_ownership(Self, caller, x), "NotOwner")

\* C12 witness: a register_issuer by a non-owner has just failed with NotOwner
\* in a state where every address is already a registered issuer and ownership
\* has been transferred away from the deployer.
C12_Witness ==
    /\ last.op = "register_issuer" /\ last.err = "NotOwner"
    /\ last.caller # owner
    /\ owner # Deployer
    /\ DOMAIN issuers = Address

\* A failed outcome r wrote nothing and emitted nothing, and the same call made
\* again on the state it left (outcome again) fails with the same error.
AtomicFailure(r, again) ==
    r.err # "Ok" => /\ r.self = Self
                    /\ r.events = <<>>
                    /\ again.err = r.err

C14_DeactivatedCannotIssue ==
    \A caller \in DOMAIN issuers :
        ~issuers[caller].active
            => /\ \A holder \in Address, a \in IssueArgs(NoExpiry) :
                     LET r == issue(Self, caller, now, holder, a)
                     IN r.err # "Ok" /\ r.self.credentials = credentials
               /\ \A holders \in ShortLists, a \in IssueArgs(NoExpiry) :
                     LET r == batch_issue(Self, caller, now, holders, a)
                     IN r.err # "Ok" /\ r.self.credentials = credentials

\* The storage and the notifications after caller has called issue once for
\* each of the first n holders, in order, starting from storage self.
RECURSIVE IssueEach(_, _, _, _, _, _)
IssueEach(self, caller, t, holders, a, n) ==
    IF n = 0 THEN [self |-> self, events |-> <<>>]
    ELSE LET p == IssueEach(self, caller, t, holders, a, n - 1)
             r == issue(p.self, caller, t, holders[n], a)
         IN [self |-> r.self, events |-> p.events \o r.events]

\* C15: for every list of at most 10 holders batch_issue returns one ID per
\* holder in input order, the IDs being total(), total()+1, ..., and leaves the
\* storage and the notifications that the same caller calling issue once per
\* holder, in order, at the same time with the same arguments would leave.
C15_BatchIsLoopedIssue ==
    \A caller \in Address, holders \in LongLists, a \in IssueArgs(NoExpiry) :
        Len(holders) <= 10
            => LET r == batch_issue(Self, caller, now, holders, a)
                   s == IssueEach(Self, caller, now, holders, a, Len(holders))
               IN /\ r.err = "Ok"
                  /\ Len(r.ret) = Len(holders)
                  /\ \A i \in 1..Len(holders) :
                        /\ r.ret[i] = total(Self) + i - 1
                        /\ r.self.credentials[r.ret[i]].holder = holders[i]
                  /\ r.self = s.self
                  /\ r.events = s.events

\* C15 witness: a batch_issue of 10 holders, two holders alternating, has just
\* returned the IDs 0..9 with one notification each.
C15_Witness ==
    /\ last.op = "batch_issue" /\ last.err = "Ok"
    /\ last.ret = [i \in 1..10 |-> i - 1]
    /\ Len(last.events) = 10
    /\ credentials[0].holder # credentials[1].holder
    /\ credentials[0].holder = credentials[2].holder

AdminAccepted(self, caller) ==
    \A x \in Address :
        /\ \A name \in Names : register_issuer(self, caller, now, x, name).err # "NotOwner"
        /\ deactivate_issuer(self, caller, x).err = "Ok"
        /\ reactivate_issuer(self, caller, x).err = "Ok"
        /\ transfer_ownership(self, caller, x).err = "Ok"

\* The administrative calls by caller on storage self all fail with NotOwner.
AdminRefused(self, caller) ==
    \A x \in Address :
        /\ \A name \in Names : register_issuer(self, caller, now, x, name).err = "NotOwner"
        /\ deactivate_issuer(self, caller, x).err = "NotOwner"
        /\ reactivate_issuer(self, caller, x).err = "NotOwner"
        /\ transfer_ownership(self, caller, x).err = "NotOwner"

\* C17: the owner changes only through a successful transfer_ownership by the
\* current owner. That call sets owner to new_owner, whatever new_owner is, and
\* changes nothing else; from then on new_owner passes the owner check of every
\* administrative call and every other account, the previous owner included,
\* gets NotOwner. Every other operation leaves owner unchanged.
C17_OwnerOnlyByTransfer ==
    /\ [](\A caller \in Address, x \in Address :
            /\ caller = owner
                 => LET r == transfer_ownership(Self, caller, x)
                    IN /\ r.err = "Ok"
                       /\ r.self = [Self EXCEPT !.owner = x]
                       /\ AdminAccepted(r.self, x)
                       /\ \A c \in Address \ {x} : AdminRefused(r.self, c)
            /\ \A name \in Names : register_issuer(Self, caller, now, x, name).self.owner = owner
            /\ deactivate_issuer(Self, caller, x).self.owner = owner
            /\ reactivate_issuer(Self, caller, x).self.owner = owner
            /\ \A a \in IssueArgs(NoExpiry) : issue(Self, caller, now, x, a).self.owner = owner
            /\ \A holders \in ShortLists, a \in IssueArgs(NoExpiry) :
                   batch_issue(Self, caller, now, holders, a).self.owner = owner
            /\ \A id \in Ids, reason \in Reasons :
                   revoke(Self, caller, now, id, reason).self.owner = owner)
    /\ [][owner' # owner
            => /\ last'.op = "transfer_ownership" /\ last'.err = "Ok"
               /\ last'.caller = owner
               /\ UNCHANGED <<issuers, credentials, cred_count, holder_creds,
                              issuer_creds, revocations, schema_version>>]_vars

\* C17 witness: the owner has just handed ownership to another account, in a
\* state with a registered issuer and a stored credential.
C17_Witness ==
    /\ last.op = "transfer_ownership" /\ last.err = "Ok"
    /\ last.caller # owner
    /\ owner # Deployer
    /\ DOMAIN issuers # {}
    /\ cred_count > 0

\* C18: an issuer identity is registered at most once. register_issuer by the
\* owner on an identity without a record inserts {name, active: true}, touches
\* no other record and emits one IssuerRegistered; on an identity that has a
\* record, active or deactivated, it fails with IssuerExists and changes
\* nothing. Under every operation an issuer record stays in the registry and
\* keeps its name.
C18_RegisterOnce ==
    /\ [](\A x \in Address, name \in Names :
            LET r == register_issuer(Self, owner, now, x, name)
            IN IF x \in DOMAIN issuers
               THEN FailsWith(r, "IssuerExists")
               ELSE /\ r.err = "Ok"
                    /\ DOMAIN r.self.issuers = DOMAIN issuers \cup {x}
                    /\ r.self.issuers[x] = [name |-> name, active |-> TRUE]
                    /\ \A y \in DOMAIN issuers : r.self.issuers[y] = issuers[y]
                    /\ r.self = [Self EXCEPT !.issuers = r.self.issuers]
                    /\ r.events = <<[event |-> "IssuerRegistered", issuer |-> x,
                                     name |-> name, timestamp |-> now]>>)
    /\ [][\A x \in DOMAIN issuers :
              x \in DOMAIN issuers' /\ issuers'[x].name = issuers[x].name]_vars

\* C18 witness: a register_issuer by the owner has just failed with
\* IssuerExists while every address has a record, one of them deactivated.
C18_Witness ==
    /\ last.op = "register_issuer" /\ last.err = "IssuerExists"
    /\ last.caller = owner
    /\ DOMAIN issuers = Address
    /\ \E x \in DOMAIN issuers : ~issuers[x].active
    /\ \E x \in DOMAIN issuers, y \in DOMAIN issuers : issuers[x].name # issuers[y].name

\* Storage self with the active flag of x's issuer record set to b.
WithActive(self, x, b) ==
    [self EXCEPT !.issuers = [y \in DOMAIN @ |->
                                 IF y = x THEN [name |-> @[y].name, active |-> b]
                                 ELSE @[y]]]

\* C19: deactivate_issuer and reactivate_issuer by the owner always succeed
\* and emit nothing. On an identity without a record they change nothing and
\* create no record; on a registered identity they leave the record with
\* active = false (deactivate) or active = true (reactivate) and the same name,
\* and change no other record, credential, index, revocation, counter or
\* owner. Repeating the call changes nothing more.
C19_ActiveFlagOnly ==
    \A x \in Address :
        LET d == deactivate_issuer(Self, owner, x)
            a == reactivate_issuer(Self, owner, x)
        IN /\ d.err = "Ok" /\ d.events = <<>>
           /\ a.err = "Ok" /\ a.events = <<>>
           /\ IF x \in DOMAIN issuers
              THEN /\ d.self = WithActive(Self, x, FALSE)
                   /\ a.self = WithActive(Self, x, TRUE)
              ELSE /\ d.self = Self
                   /\ a.self = Self
           /\ deactivate_issuer(d.self, owner, x).self = d.self
           /\ reactivate_issuer(a.self, owner, x).self = a.self

\* C19 witness: the owner has just deactivated an identity that has no record,
\* while the one registered issuer is active and has issued a credential.
C19_Witness ==
    /\ last.op = "deactivate_issuer" /\ last.err = "Ok"
    /\ last.caller = owner
    /\ \E x \in Address :
          /\ DOMAIN issuers = {x}
          /\ issuers[x].active
          /\ \E id \in DOMAIN credentials : credentials[id].issuer = x

\* C20: at every block time and for every stored credential, verify reporting
\* is_valid = true implies that is_valid returns true; and when is_valid
\* returns true while verify reports is_valid = false, verify's status is
\* ISSUER_INACTIVE, never REVOKED or EXPIRED.
C20_ReadPathsAgree ==
    \A id \in DOMAIN credentials, t \in Time :
        LET v == verify(Self, t, id).ret
            s == is_valid(Self, t, id).ret
        IN /\ v.is_valid => s
           /\ (s /\ ~v.is_valid) => v.status = STATUS_ISSUER_INACTIVE

\* C20 witness: verify has just reported ISSUER_INACTIVE for a credential that
\* is_valid accepts, at the block time equal to its expires_at; the issuer has
\* a record and is deactivated.
C20_Witness ==
    /\ last.op = "verify" /\ last.err = "Ok"
    /\ last.ret.status = STATUS_ISSUER_INACTIVE
    /\ ~last.ret.is_valid
    /\ last.ret.issuer_name # "Unknown"
    /\ now > 0
    /\ \E id \in DOMAIN credentials :
          /\ credentials[id] = last.ret.credential
          /\ credentials[id].expires_at = now
          /\ is_valid(Self, now, id).ret

====
